---- MODULE Spec2Model ----
(***************************************************************************)
(* Invoice extraction service (src/main.py): the /upload handler, the      *)
(* per-page text aggregation of extract_text_from_pdf, the minimum-yield   *)
(* check of process_invoice and the reply sanitizer / parser / backfill of *)
(* extract_invoice_json.                                                   *)
(*                                                                         *)
(* A Python str is modelled as a sequence.  The model reply and the JSON   *)
(* text are sequences of tokens [t, v]; a string literal is one token      *)
(* whose v holds the literal's content as a sequence of words.  The text   *)
(* of a page is a sequence of characters [kind, page, frag] that remember  *)
(* the page and the recognition fragment they came from.                   *)
(***************************************************************************)
EXTENDS Integers, Sequences, FiniteSets, TLC

VARIABLES
    \* extract_invoice_json run on its own
    x_pc, content, x_out,
    \* extract_text_from_pdf run on its own
    t_pc, pdf_document, page_num, extracted_text, final_text, ocr_calls,
    \* the server: req[r] is the thread serving request r, uploads the folder
    req, uploads

xvars == <<x_pc, content, x_out>>
tvars == <<t_pc, pdf_document, page_num, extracted_text, final_text, ocr_calls>>
pvars == <<req, uploads>>
vars == <<xvars, tvars, pvars>>

(***************************************************************************)
(* Part 1.  extract_invoice_json: sanitizer, json.loads, backfill.         *)
(***************************************************************************)

\* main.py:146-147
expected_fields ==
    << "invoiceNumber", "poNumber", "supplierName", "totalAmount",
       "discount", "taxAmount", "vat", "sgst", "cgst", "igst", "invoiceAmount" >>

Range(s) == { s[i] : i \in 1..Len(s) }

\* ---- tokens of a reply ----
Tok(t) == [t |-> t, v |-> <<>>]
TICK == Tok("tick")
NL == Tok("NL")
SP == Tok("SP")
JSONWORD == Tok("json")
LBRACE == Tok("{")
RBRACE == Tok("}")
LBRACK == Tok("[")
RBRACK == Tok("]")
COMMA == Tok(",")
COLON == Tok(":")
NULLTOK == Tok("null")
StrTok(words) == [t |-> "str", v |-> words]
NumTok(digits) == [t |-> "num", v |-> <<digits>>]

IsSpace(tok) == tok.t \in {"NL", "SP"}

\* str.strip() on a token text: leading and trailing whitespace removed
RECURSIVE LStrip(_)
LStrip(s) == IF s # <<>> /\ IsSpace(Head(s)) THEN LStrip(Tail(s)) ELSE s

RECURSIVE RStrip(_)
RStrip(s) ==
    IF s # <<>> /\ IsSpace(s[Len(s)]) THEN RStrip(SubSeq(s, 1, Len(s) - 1)) ELSE s

Strip(s) == RStrip(LStrip(s))

\* number of whitespace tokens of s starting at position i
RECURSIVE SpaceRun(_, _)
SpaceRun(s, i) == IF i <= Len(s) /\ IsSpace(s[i]) THEN 1 + SpaceRun(s, i + 1) ELSE 0

FenceAt(s, i) == i + 2 <= Len(s) /\ s[i] = TICK /\ s[i + 1] = TICK /\ s[i + 2] = TICK

\* the anchor ^ under re.MULTILINE: the start of the text or just after a newline
LineStart(s, i) == i = 1 \/ (i > 1 /\ i <= Len(s) + 1 /\ s[i - 1] = NL)

\* the anchor $ under re.MULTILINE: the end of the text or just before a newline
LineEnd(s, i) == i = Len(s) + 1 \/ (i <= Len(s) /\ s[i] = NL)

\* length of the match of: line start, three backticks, an optional json,
\* any whitespace; at position i, 0 when none
OpenFenceLen(s, i) ==
    IF LineStart(s, i) /\ FenceAt(s, i)
    THEN LET j == IF i + 3 <= Len(s) /\ s[i + 3] = JSONWORD THEN i + 4 ELSE i + 3
         IN  (j - i) + SpaceRun(s, j)
    ELSE 0

\* main.py:137  re.sub of the opening fence pattern, re.MULTILINE
RECURSIVE SubOpenFence(_, _)
SubOpenFence(s, i) ==
    IF i > Len(s) THEN <<>>
    ELSE LET n == OpenFenceLen(s, i)
         IN  IF n > 0 THEN SubOpenFence(s, i + n)
             ELSE <<s[i]>> \o SubOpenFence(s, i + 1)

\* length of the match of: any whitespace, three backticks, line end; at
\* position i, 0 when none
CloseFenceLen(s, i) ==
    LET w == SpaceRun(s, i)
    IN  IF FenceAt(s, i + w) /\ LineEnd(s, i + w + 3) THEN w + 3 ELSE 0

\* main.py:138  re.sub of the closing fence pattern, re.MULTILINE
RECURSIVE SubCloseFence(_, _)
SubCloseFence(s, i) ==
    IF i > Len(s) THEN <<>>
    ELSE LET n == CloseFenceLen(s, i)
         IN  IF n > 0 THEN SubCloseFence(s, i + n)
             ELSE <<s[i]>> \o SubCloseFence(s, i + 1)

\* words of a string literal without the backtick words
RECURSIVE DropTickWords(_)
DropTickWords(w) ==
    IF w = <<>> THEN <<>>
    ELSE IF Head(w) = "tick" THEN DropTickWords(Tail(w))
    ELSE <<Head(w)>> \o DropTickWords(Tail(w))

\* main.py:139  replace of the backtick by nothing: every backtick goes,
\* inside literals too
RECURSIVE RemoveTicks(_)
RemoveTicks(s) ==
    IF s = <<>> THEN <<>>
    ELSE IF Head(s) = TICK THEN RemoveTicks(Tail(s))
    ELSE IF Head(s).t = "str"
         THEN <<StrTok(DropTickWords(Head(s).v))>> \o RemoveTicks(Tail(s))
    ELSE <<Head(s)>> \o RemoveTicks(Tail(s))

\* main.py:133-139
Sanitize(raw) ==
    RemoveTicks(Strip(SubCloseFence(SubOpenFence(Strip(raw), 1), 1)))

\* ---- JSON values ----
NoMap == <<>>
JNull == [k |-> "null", s |-> <<>>, items |-> <<>>, m |-> NoMap]
JStr(words) == [k |-> "str", s |-> words, items |-> <<>>, m |-> NoMap]
JNum(digits) == [k |-> "num", s |-> <<digits>>, items |-> <<>>, m |-> NoMap]
JArr(items) == [k |-> "arr", s |-> <<>>, items |-> items, m |-> NoMap]
JObj(m) == [k |-> "obj", s |-> <<>>, items |-> <<>>, m |-> m]

\* dict[key] = val
Put(m, key, val) == [x \in (DOMAIN m) \cup {key} |-> IF x = key THEN val ELSE m[x]]

ParseFail == [ok |-> FALSE, val |-> JNull, rest |-> <<>>]
ParseOk(val, rest) == [ok |-> TRUE, val |-> val, rest |-> rest]

RECURSIVE DropSpace(_)
DropSpace(s) ==
    IF s = <<>> THEN <<>>
    ELSE IF IsSpace(Head(s)) THEN DropSpace(Tail(s))
    ELSE <<Head(s)>> \o DropSpace(Tail(s))

RECURSIVE ParseValue(_), ParseMembers(_, _), ParseItems(_, _)

\* one JSON value at the head of ts (whitespace already skipped)
ParseValue(ts) ==
    IF ts = <<>> THEN ParseFail
    ELSE LET h == Head(ts)
             r == Tail(ts)
         IN  CASE h.t = "str" -> ParseOk(JStr(h.v), r)
               [] h.t = "num" -> ParseOk(JNum(h.v[1]), r)
               [] h.t = "null" -> ParseOk(JNull, r)
               [] h.t = "{" ->
                    IF r # <<>> /\ Head(r) = RBRACE
                    THEN ParseOk(JObj(NoMap), Tail(r))
                    ELSE ParseMembers(r, NoMap)
               [] h.t = "[" ->
                    IF r # <<>> /\ Head(r) = RBRACK
                    THEN ParseOk(JArr(<<>>), Tail(r))
                    ELSE ParseItems(r, <<>>)
               [] OTHER -> ParseFail

\* "key": value (, "key": value)* }   a repeated key keeps the last value
ParseMembers(ts, m) ==
    IF Len(ts) < 2 \/ ts[1].t # "str" \/ ts[2] # COLON THEN ParseFail
    ELSE LET pv == ParseValue(SubSeq(ts, 3, Len(ts)))
         IN  IF ~pv.ok \/ pv.rest = <<>> THEN ParseFail
             ELSE LET m2 == Put(m, ts[1].v, pv.val)
                      sep == Head(pv.rest)
                  IN  IF sep = RBRACE THEN ParseOk(JObj(m2), Tail(pv.rest))
                      ELSE IF sep = COMMA THEN ParseMembers(Tail(pv.rest), m2)
                      ELSE ParseFail

\* value (, value)* ]
ParseItems(ts, items) ==
    LET pv == ParseValue(ts)
    IN  IF ~pv.ok \/ pv.rest = <<>> THEN ParseFail
        ELSE LET items2 == Append(items, pv.val)
                 sep == Head(pv.rest)
             IN  IF sep = RBRACK THEN ParseOk(JArr(items2), Tail(pv.rest))
                 ELSE IF sep = COMMA THEN ParseItems(Tail(pv.rest), items2)
                 ELSE ParseFail

\* main.py:143  json.loads(content): one value and nothing after it
json_loads(s) ==
    LET pv == ParseValue(DropSpace(s))
    IN  IF pv.ok /\ pv.rest = <<>> THEN pv ELSE ParseFail

\* faulty variant: the membership test always says absent
ContainsNever(val, field) == IF val.k \in {"obj", "arr", "str"} THEN "no" ELSE "TypeError"

\* main.py:149  Python's  field in parsed_json ; TypeError where the operand
\* has no membership test.  A str is searched word by word: no field name
\* lies inside another or across two words of the strings used here.
Contains(val, field) ==
    CASE val.k = "obj" -> IF <<field>> \in DOMAIN val.m THEN "yes" ELSE "no"
      [] val.k = "arr" -> IF JStr(<<field>>) \in Range(val.items) THEN "yes" ELSE "no"
      [] val.k = "str" -> IF field \in Range(val.s) THEN "yes" ELSE "no"
      [] OTHER -> "TypeError"

Returned(val) == [status |-> "ok", value |-> val]
Raised(kind) == [status |-> kind, value |-> JNull]

\* faulty variant: the missing field is not added
SetNoneSkip(val, field) == Returned(val)

\* main.py:150  parsed_json[field] = None ; only a dict takes a str key
SetNone(val, field) ==
    IF val.k = "obj" THEN Returned(JObj(Put(val.m, <<field>>, JNull)))
    ELSE Raised("TypeError")

\* main.py:148-150  the loop over expected_fields, from field number i on
RECURSIVE Backfill(_, _)
Backfill(val, i) ==
    IF i > Len(expected_fields) THEN Returned(val)
    ELSE LET c == Contains(val, expected_fields[i])
         IN  IF c = "TypeError" THEN Raised("TypeError")
             ELSE IF c = "yes" THEN Backfill(val, i + 1)
             ELSE LET r == SetNone(val, expected_fields[i])
                  IN  IF r.status = "ok" THEN Backfill(r.value, i + 1) ELSE r

\* main.py:133-163  from the model's reply to the returned record or the
\* exception raised: json.JSONDecodeError becomes ValueError (155-158), any
\* other exception is re-raised as it is (159-163)
SanitizeAndParse(raw) ==
    LET pv == json_loads(Sanitize(raw))
    IN  IF ~pv.ok THEN Raised("ValueError") ELSE Backfill(pv.val, 1)

(***************************************************************************)
(* Replies the language model can give: a body (a JSON text, complete,     *)
(* cut short or followed by something) between a prefix and a suffix       *)
(* (fences, prose, whitespace).                                            *)
(***************************************************************************)
MaxMembers == 2

PROSE == Tok("prose")

SeqsUpTo(S, n) == UNION { [1..k -> S] : k \in 0..n }

InKeys == {"invoiceNumber", "totalAmount", "notes"}
InVals == {StrTok(<<"123">>), StrTok(<<"9", "tick", "9">>), NULLTOK}
InMembers == { <<StrTok(<<key>>), COLON, val>> : key \in InKeys, val \in InVals }
InItems == { <<StrTok(<<"vat">>)>>, <<NumTok("5")>> }

RECURSIVE Join(_)
Join(parts) ==
    IF parts = <<>> THEN <<>>
    ELSE IF Len(parts) = 1 THEN parts[1]
    ELSE parts[1] \o <<COMMA>> \o Join(Tail(parts))

ObjToks(members) == <<LBRACE>> \o Join(members) \o <<RBRACE>>
ArrToks(items) == <<LBRACK>> \o Join(items) \o <<RBRACK>>

AllFieldsObj ==
    ObjToks([i \in 1..Len(expected_fields) |->
                <<StrTok(<<expected_fields[i]>>), COLON, StrTok(<<"1">>)>>])
AllFieldsArr ==
    ArrToks([i \in 1..Len(expected_fields) |-> <<StrTok(<<expected_fields[i]>>)>>])
AllFieldsStr == <<StrTok(expected_fields)>>
ExampleBody == ObjToks(<< <<StrTok(<<"invoiceNumber">>), COLON, StrTok(<<"123">>)>> >>)

ObjBodies == { ObjToks(ms) : ms \in SeqsUpTo(InMembers, MaxMembers) } \cup {AllFieldsObj}
OtherBodies ==
    { ArrToks(is) : is \in SeqsUpTo(InItems, MaxMembers) }
      \cup { AllFieldsArr, AllFieldsStr, <<StrTok(<<"vat">>)>>, <<NumTok("5")>>, <<NULLTOK>> }
Truncated ==
    { SubSeq(b, 1, n) : b \in { ObjToks(ms) : ms \in [1..1 -> InMembers] }, n \in 0..4 }
      \cup { SubSeq(AllFieldsObj, 1, Len(AllFieldsObj) - 1), SubSeq(AllFieldsArr, 1, 2) }
Followed == { ExampleBody \o <<PROSE>>, ExampleBody \o ExampleBody, <<NumTok("5"), COMMA>> }
Bodies == ObjBodies \cup OtherBodies \cup Truncated \cup Followed

Prefixes ==
    { <<>>, <<TICK, TICK, TICK>>, <<TICK, TICK, TICK, JSONWORD, NL>>,
      <<SP, TICK, TICK, TICK, JSONWORD, SP, NL>>, <<JSONWORD, NL>>,
      <<PROSE, NL, TICK, TICK, TICK, JSONWORD, NL>>, <<TICK>> }
Suffixes ==
    { <<>>, <<NL, TICK, TICK, TICK>>, <<TICK, TICK, TICK, NL>>, <<SP, TICK, TICK, TICK, TICK>>,
      <<NL, TICK, TICK, TICK, NL, PROSE>> }

Replies == { p \o b \o x : p \in Prefixes, b \in Bodies, x \in Suffixes }

ExampleReply == <<TICK, TICK, TICK, JSONWORD, NL>> \o ExampleBody \o <<NL, TICK, TICK, TICK>>

\* extract_invoice_json is entered
ExtractStart ==
    /\ x_pc = "call"
    /\ content = <<>>
    /\ x_out = Raised("none")

\* main.py:123-133  the model replies
ECreate ==
    /\ x_pc = "call"
    /\ content' \in Replies
    /\ x_pc' = "reply"
    /\ UNCHANGED <<x_out, tvars, pvars>>

\* main.py:123-131, 159-163  the call raises and the exception is re-raised
ECreateRaise ==
    /\ x_pc = "call"
    /\ x_pc' = "done"
    /\ x_out' = Raised("LLM Error")
    /\ UNCHANGED <<content, tvars, pvars>>

\* main.py:136-163  the reply is cleaned, parsed and backfilled
EParse ==
    /\ x_pc = "reply"
    /\ x_pc' = "done"
    /\ x_out' = SanitizeAndParse(content)
    /\ UNCHANGED <<content, tvars, pvars>>

NextExtract == ECreate \/ ECreateRaise \/ EParse

(***************************************************************************)
(* Part 2.  extract_text_from_pdf: the per-page loop.                      *)
(*                                                                         *)
(* A character is [kind, page, frag]: kind is txt (not whitespace), sp or  *)
(* nl; page is the page it came from; frag is 0 for the native text layer, *)
(* k >= 1 for the k-th line the recognition engine emitted, and -1 for the *)
(* newline and the spaces the loop itself adds (main.py:57, 75).           *)
(***************************************************************************)
NativeThreshold == 50
MinYield == 10

Ch(kind, page, frag) == [kind |-> kind, page |-> page, frag |-> frag]
Rep(c, n) == [i \in 1..n |-> c]

IsWs(c) == c.kind \in {"sp", "nl"}

\* str.strip() on a text
RECURSIVE LStripText(_)
LStripText(s) == IF s # <<>> /\ IsWs(Head(s)) THEN LStripText(Tail(s)) ELSE s

RECURSIVE RStripText(_)
RStripText(s) ==
    IF s # <<>> /\ IsWs(s[Len(s)]) THEN RStripText(SubSeq(s, 1, Len(s) - 1)) ELSE s

StripText(s) == RStripText(LStripText(s))

\* faulty variant: the threshold is one too high
NativeUsableOff(native_text) ==
    native_text # <<>> /\ Len(StripText(native_text)) > NativeThreshold + 1

\* main.py:54  native_text and len(native_text.strip()) > 50
NativeUsable(native_text) ==
    native_text # <<>> /\ Len(StripText(native_text)) > NativeThreshold

\* faulty variant: the page is put in front of the text
AppendNativeFront(text, native_text, page) ==
    native_text \o <<Ch("nl", page, -1)>> \o text

\* main.py:57  extracted_text += native_text + "\n"
AppendNative(text, native_text, page) ==
    text \o native_text \o <<Ch("nl", page, -1)>>

\* A line of the engine's result: None, a line of fewer than two entries,
\* [box, (text, confidence)] or [box, text]; n is the length of its text.
OcrLine(shape, n) == [shape |-> shape, n |-> n]
LineKept(line) == line.shape \in {"pair", "bare"}

\* main.py:74  line[1][0] if line[1] is a list or tuple, else str(line[1])
LineText(line, page, k) == Rep(Ch("txt", page, k), line.n)

\* main.py:72-75  for line in result[0]: ... extracted_text += text + " "
RECURSIVE AppendLines(_, _, _, _)
AppendLines(text, lines, page, k) ==
    IF k > Len(lines) THEN text
    ELSE IF LineKept(lines[k])
         THEN AppendLines(text \o LineText(lines[k], page, k)
                            \o <<Ch("sp", page, -1)>>, lines, page, k + 1)
         ELSE AppendLines(text, lines, page, k + 1)

\* The engine's result: None, [], [None] or [lines].
OcrResult(shape, lines) == [shape |-> shape, lines |-> lines]

\* main.py:71-75  if result and len(result) > 0 and result[0]: ...
AppendOcr(text, result, page) ==
    IF result.shape = "lines" /\ result.lines # <<>>
    THEN AppendLines(text, result.lines, page, 1)
    ELSE text

\* main.py:80  final_text = extracted_text.strip()
FinalText(text) == StripText(text)

\* ---- documents and engine results the loop is run on ----
MaxPages == 3
MaxLines == 2
FragLen == 1

\* the text layer of page p: n characters between lead and trail whitespace
Native(p, lead, n, trail) ==
    Rep(Ch("sp", p, 0), lead) \o Rep(Ch("txt", p, 0), n) \o Rep(Ch("nl", p, 0), trail)

NativeTexts(p) ==
    { Native(p, 0, 0, 0), Native(p, 1, NativeThreshold, 1),
      Native(p, 0, NativeThreshold + 1, 0), Native(p, 1, NativeThreshold + 1, 1) }

RECURSIVE DocsOfLen(_)
DocsOfLen(n) ==
    IF n = 0 THEN { <<>> }
    ELSE { Append(d, t) : d \in DocsOfLen(n - 1), t \in NativeTexts(n) }

Docs == UNION { DocsOfLen(n) : n \in 0..MaxPages }

LineShapes == {"None", "short", "pair", "bare"}
OcrResultsOf(lens) ==
    { OcrResult("None", <<>>), OcrResult("empty", <<>>), OcrResult("lines", <<>>) }
      \cup { OcrResult("lines", ls) :
               ls \in UNION { [1..k -> { OcrLine(sh, n) : sh \in LineShapes, n \in lens }] :
                               k \in 1..MaxLines } }

\* extract_text_from_pdf is entered with the document doc
TextStart(doc) ==
    /\ t_pc = "open"
    /\ pdf_document = doc
    /\ page_num = 0
    /\ extracted_text = <<>>
    /\ final_text = <<>>
    /\ ocr_calls = 0

\* main.py:42-43  fitz.open(pdf_path); extracted_text = ""
TOpen ==
    /\ t_pc = "open"
    /\ t_pc' = "loop"
    /\ page_num' = 1
    /\ extracted_text' = <<>>
    /\ UNCHANGED <<pdf_document, final_text, ocr_calls>>
    /\ UNCHANGED <<xvars, pvars>>

\* main.py:42, 86-90  fitz.open raises: the exception is re-raised
TOpenRaise ==
    /\ t_pc = "open"
    /\ t_pc' = "raised"
    /\ UNCHANGED <<pdf_document, page_num, extracted_text, final_text, ocr_calls>>
    /\ UNCHANGED <<xvars, pvars>>

\* main.py:47-57  a page whose text layer is usable
TNativePage ==
    /\ t_pc = "loop"
    /\ page_num <= Len(pdf_document)
    /\ NativeUsable(pdf_document[page_num])
    /\ extracted_text' = AppendNative(extracted_text, pdf_document[page_num], page_num)
    /\ page_num' = page_num + 1
    /\ UNCHANGED <<t_pc, pdf_document, final_text, ocr_calls>>
    /\ UNCHANGED <<xvars, pvars>>

\* main.py:58-69  no usable text layer: the page is rendered and ocr.ocr called
TOcrCall ==
    /\ t_pc = "loop"
    /\ page_num <= Len(pdf_document)
    /\ ~NativeUsable(pdf_document[page_num])
    /\ t_pc' = "ocr"
    /\ ocr_calls' = ocr_calls + 1
    /\ UNCHANGED <<pdf_document, page_num, extracted_text, final_text>>
    /\ UNCHANGED <<xvars, pvars>>

\* main.py:69-76  ocr.ocr returns; its lines are appended
TOcrReturn ==
    /\ t_pc = "ocr"
    /\ \E result \in OcrResultsOf({FragLen}) :
          extracted_text' = AppendOcr(extracted_text, result, page_num)
    /\ t_pc' = "loop"
    /\ page_num' = page_num + 1
    /\ UNCHANGED <<pdf_document, final_text, ocr_calls>>
    /\ UNCHANGED <<xvars, pvars>>

\* main.py:63-69, 86-90  rendering or ocr.ocr raises: the exception is re-raised
TOcrRaise ==
    /\ t_pc = "ocr"
    /\ t_pc' = "raised"
    /\ UNCHANGED <<pdf_document, page_num, extracted_text, final_text, ocr_calls>>
    /\ UNCHANGED <<xvars, pvars>>

\* main.py:78-84  after the last page
TFinish ==
    /\ t_pc = "loop"
    /\ page_num > Len(pdf_document)
    /\ final_text' = FinalText(extracted_text)
    /\ t_pc' = "done"
    /\ UNCHANGED <<pdf_document, page_num, extracted_text, ocr_calls>>
    /\ UNCHANGED <<xvars, pvars>>

NextText == TOpen \/ TOpenRaise \/ TNativePage \/ TOcrCall \/ TOcrReturn \/ TOcrRaise \/ TFinish

(***************************************************************************)
(* Part 3.  The /upload handler and process_invoice, one thread of the     *)
(* server per request, all threads sharing the uploads folder and the      *)
(* recognition engine.                                                     *)
(***************************************************************************)
NumRequests == 2
Requests == 1..NumRequests

\* A file name is a sequence of its parts.
Filenames ==
    { <<>>, <<"a", ".", "txt">>, <<"a", ".", "pdf">>, <<".", ".", "/", "a", ".", "pdf">>,
      <<"b", ".", "PDF">> }

Lower(part) == IF part = "PDF" THEN "pdf" ELSE part

\* main.py:207  file.filename.lower().endswith('.pdf')
EndsWithPdf(filename) ==
    /\ Len(filename) >= 2
    /\ Lower(filename[Len(filename)]) = "pdf"
    /\ filename[Len(filename) - 1] = "."

RECURSIVE LStripDots(_)
LStripDots(f) == IF f # <<>> /\ Head(f) \in {".", "_"} THEN LStripDots(Tail(f)) ELSE f

RECURSIVE RStripDots(_)
RStripDots(f) ==
    IF f # <<>> /\ f[Len(f)] \in {".", "_"} THEN RStripDots(SubSeq(f, 1, Len(f) - 1)) ELSE f

\* main.py:210  secure_filename: path separators become underscores, then
\* dots and underscores are stripped from both ends
secure_filename(filename) ==
    RStripDots(LStripDots([i \in 1..Len(filename) |->
                              IF filename[i] = "/" THEN "_" ELSE filename[i]]))

Paths == { secure_filename(f) : f \in { g \in Filenames : EndsWithPdf(g) } }

\* documents uploaded, results of the engine and replies of the model here
TextPage == <<Native(1, 0, NativeThreshold + 1, 1)>>
ScanPage == <<Native(1, 0, 0, 0)>>
UploadDocs == { TextPage, ScanPage }
UploadOcrResults ==
    { OcrResult("None", <<>>),
      OcrResult("lines", <<OcrLine("pair", MinYield - 1), OcrLine("None", 0)>>),
      OcrResult("lines", <<OcrLine("pair", MinYield - 2), OcrLine("bare", 1)>>) }
UploadReplies ==
    { ExampleReply, AllFieldsObj, AllFieldsArr, SubSeq(ExampleBody, 1, 4) }

\* what extract_invoice_json makes of each of these replies
ReplyOutcome == [raw \in UploadReplies |-> SanitizeAndParse(raw)]

NoFile == "absent"

\* the JSON body and status code of a response (jsonify(...), code)
NoResponse == [code |-> 0, success |-> "absent", error |-> "", has_data |-> FALSE, data |-> JNull]
Rejected(msg) == [code |-> 400, success |-> "absent", error |-> msg, has_data |-> FALSE, data |-> JNull]
\* main.py:224
Failed(msg) == [code |-> 500, success |-> "false", error |-> msg, has_data |-> FALSE, data |-> JNull]
\* main.py:218
Succeeded(data) == [code |-> 200, success |-> "true", error |-> "", has_data |-> TRUE, data |-> data]

\* main.py:175
InsufficientMsg == "Insufficient text extracted from OCR"

\* faulty variant: only the empty text is refused
InsufficientEmptyOnly(text) == text = <<>>

\* main.py:174  not text or len(text) < 10
Insufficient(text) == text = <<>> \/ Len(text) < MinYield

\* str(e) of the exception extract_invoice_json raises
ErrorOf(status) ==
    IF status = "ValueError" THEN "Failed to parse JSON from LLM response" ELSE status

Idle ==
    [pc |-> "idle", file |-> <<>>, path |-> <<>>, pdf_document |-> <<>>, page_num |-> 0,
     text |-> <<>>, ocr_calls |-> 0, llm_calls |-> 0, response |-> NoResponse]

\* the server has started: no request yet, the uploads folder is empty
UploadStart ==
    /\ req = [r \in Requests |-> Idle]
    /\ uploads = [p \in Paths |-> NoFile]

\* the handler returns resp: its locals are gone; the text it had extracted
\* and the counters are kept for the record
Return(r, resp, text) ==
    req' = [req EXCEPT ![r] = [Idle EXCEPT !.pc = "done", !.response = resp, !.text = text,
                                           !.ocr_calls = req[r].ocr_calls,
                                           !.llm_calls = req[r].llm_calls]]

Respond(r, resp) == Return(r, resp, req[r].text)

\* main.py:199-200  no file field in the request
UploadNoFile(r) ==
    /\ req[r].pc = "idle"
    /\ Respond(r, Rejected("No file uploaded"))
    /\ UNCHANGED <<uploads, xvars, tvars>>

\* main.py:202-208  empty file name, or a name that does not end in .pdf
UploadRejected(r) ==
    /\ req[r].pc = "idle"
    /\ \E filename \in Filenames :
          /\ filename = <<>> \/ ~EndsWithPdf(filename)
          /\ Respond(r, Rejected(IF filename = <<>> THEN "No file selected"
                                 ELSE "Only PDF files are supported"))
    /\ UNCHANGED <<uploads, xvars, tvars>>

\* main.py:210-212  the file is saved under its sanitized name
UploadSave(r) ==
    /\ req[r].pc = "idle"
    /\ \E filename \in Filenames, doc \in UploadDocs :
          /\ filename # <<>> /\ EndsWithPdf(filename)
          /\ uploads' = [uploads EXCEPT ![secure_filename(filename)] = doc]
          /\ req' = [req EXCEPT ![r].pc = "saved", ![r].file = doc,
                                ![r].path = secure_filename(filename)]
    /\ UNCHANGED <<xvars, tvars>>

\* main.py:212, 220-224  file.save raises
UploadSaveRaise(r) ==
    /\ req[r].pc = "idle"
    /\ \E filename \in Filenames : filename # <<>> /\ EndsWithPdf(filename)
    /\ Respond(r, Failed("save failed"))
    /\ UNCHANGED <<uploads, xvars, tvars>>

\* main.py:42, 86-90, 220-224  fitz.open raises
OpenRaise(r) ==
    /\ req[r].pc = "saved"
    /\ Respond(r, Failed("OCR Error"))
    /\ UNCHANGED <<uploads, xvars, tvars>>

\* main.py:42-43  fitz.open(pdf_path) reads what is at the path now
Open(r) ==
    /\ req[r].pc = "saved"
    /\ req' = [req EXCEPT ![r].pc = "loop", ![r].pdf_document = uploads[req[r].path],
                          ![r].page_num = 1, ![r].text = <<>>]
    /\ UNCHANGED <<uploads, xvars, tvars>>

\* main.py:47-57
NativePage(r) ==
    /\ req[r].pc = "loop"
    /\ req[r].page_num <= Len(req[r].pdf_document)
    /\ NativeUsable(req[r].pdf_document[req[r].page_num])
    /\ req' = [req EXCEPT ![r].text = AppendNative(req[r].text,
                                          req[r].pdf_document[req[r].page_num], req[r].page_num),
                          ![r].page_num = req[r].page_num + 1]
    /\ UNCHANGED <<uploads, xvars, tvars>>

\* main.py:58-69  the thread enters ocr.ocr on the shared engine
OcrCall(r) ==
    /\ req[r].pc = "loop"
    /\ req[r].page_num <= Len(req[r].pdf_document)
    /\ ~NativeUsable(req[r].pdf_document[req[r].page_num])
    /\ req' = [req EXCEPT ![r].pc = "ocr", ![r].ocr_calls = req[r].ocr_calls + 1]
    /\ UNCHANGED <<uploads, xvars, tvars>>

\* main.py:69-76  ocr.ocr returns
OcrReturn(r) ==
    /\ req[r].pc = "ocr"
    /\ \E result \in UploadOcrResults :
          req' = [req EXCEPT ![r].pc = "loop",
                             ![r].text = AppendOcr(req[r].text, result, req[r].page_num),
                             ![r].page_num = req[r].page_num + 1]
    /\ UNCHANGED <<uploads, xvars, tvars>>

\* main.py:86-90, 220-224  rendering or ocr.ocr raises
OcrRaise(r) ==
    /\ req[r].pc = "ocr"
    /\ Respond(r, Failed("OCR Error"))
    /\ UNCHANGED <<uploads, xvars, tvars>>

\* main.py:78-84, 172-181  the text is stripped and checked; the model is
\* called only when the check passes
Finish(r) ==
    /\ req[r].pc = "loop"
    /\ req[r].page_num > Len(req[r].pdf_document)
    /\ LET text == FinalText(req[r].text)
       IN  IF Insufficient(text)
           THEN Return(r, Failed(InsufficientMsg), text)
           ELSE req' = [req EXCEPT ![r].pc = "llm", ![r].text = text,
                                   ![r].llm_calls = req[r].llm_calls + 1]
    /\ UNCHANGED <<uploads, xvars, tvars>>

\* main.py:133-153, 187, 218, 220-224  the model replies
LlmReturn(r) ==
    /\ req[r].pc = "llm"
    /\ \E raw \in UploadReplies :
          LET out == ReplyOutcome[raw]
          IN  Respond(r, IF out.status = "ok" THEN Succeeded(out.value)
                         ELSE Failed(ErrorOf(out.status)))
    /\ UNCHANGED <<uploads, xvars, tvars>>

\* main.py:123-131, 159-163, 220-224  the call to the model raises
LlmRaise(r) ==
    /\ req[r].pc = "llm"
    /\ Respond(r, Failed("LLM Error"))
    /\ UNCHANGED <<uploads, xvars, tvars>>

Next ==
    \E r \in Requests :
        \/ UploadNoFile(r) \/ UploadRejected(r) \/ UploadSave(r) \/ UploadSaveRaise(r)
        \/ Open(r) \/ OpenRaise(r)
        \/ NativePage(r) \/ OcrCall(r) \/ OcrReturn(r) \/ OcrRaise(r)
        \/ Finish(r) \/ LlmReturn(r) \/ LlmRaise(r)

Init == ExtractStart /\ TextStart(<<>>) /\ UploadStart

Spec == Init /\ [][Next]_vars

InitText == ExtractStart /\ (\E doc \in Docs : TextStart(doc)) /\ UploadStart

SpecText == InitText /\ [][NextText]_vars

InitExtract == ExtractStart /\ TextStart(<<>>) /\ UploadStart

SpecExtract == InitExtract /\ [][NextExtract]_vars

(***************************************************************************)
(* Properties of extract_invoice_json (SpecExtract).                       *)
(***************************************************************************)
SchemaKeys == { <<expected_fields[i]>> : i \in 1..Len(expected_fields) }

\* what json.loads makes of the cleaned reply
Parsed == json_loads(Sanitize(content))

ParsedObject == x_pc = "done" /\ x_out.status # "LLM Error" /\ Parsed.ok /\ Parsed.val.k = "obj"

\* C1 as stated: a reply that parses to an object gives a record whose keys
\* are exactly the 11 schema keys, none missing and none besides them.
C1_ExactlySchemaKeys ==
    ParsedObject => x_out.status = "ok" /\ DOMAIN x_out.value.m = SchemaKeys

\* C1 amended: a reply that parses to an object gives a record that has every
\* one of the 11 schema keys and, besides them, exactly the keys of the parsed
\* object: a key outside the schema is kept, not removed.
C1_SchemaKeysPresent ==
    ParsedObject =>
        /\ x_out.status = "ok"
        /\ x_out.value.k = "obj"
        /\ DOMAIN x_out.value.m = SchemaKeys \cup DOMAIN Parsed.val.m

\* a reply with a key outside the schema has been parsed and backfilled
C1_Witness ==
    /\ ParsedObject
    /\ x_out.status = "ok"
    /\ <<"notes">> \in DOMAIN Parsed.val.m
    /\ <<"notes">> \in DOMAIN x_out.value.m
    /\ ~(SchemaKeys \subseteq DOMAIN Parsed.val.m)

\* C2: backfill. For a reply that parses to an object, every schema field the
\* object lacks is null in the result and every schema field it has keeps the
\* parsed value; the fenced reply holding only invoiceNumber "123" gives
\* invoiceNumber "123" and null for the other 10 fields.
C2_Backfill ==
    /\ ParsedObject =>
          /\ x_out.status = "ok"
          /\ x_out.value.k = "obj"
          /\ \A key \in SchemaKeys :
                /\ key \in DOMAIN x_out.value.m
                /\ x_out.value.m[key] =
                      IF key \in DOMAIN Parsed.val.m THEN Parsed.val.m[key] ELSE JNull
    /\ (x_pc = "done" /\ content = ExampleReply) =>
          /\ x_out.status = "ok"
          /\ x_out.value.k = "obj"
          /\ DOMAIN x_out.value.m = SchemaKeys
          /\ \A key \in SchemaKeys :
                x_out.value.m[key] =
                   IF key = <<"invoiceNumber">> THEN JStr(<<"123">>) ELSE JNull

\* the fenced example reply has been processed, and so has a reply that has
\* some schema fields and lacks others
C2_Witness ==
    /\ x_pc = "done"
    /\ content = ExampleReply
    /\ x_out.status = "ok"
    /\ x_out.value.m[<<"invoiceNumber">>] = JStr(<<"123">>)
    /\ x_out.value.m[<<"vat">>] = JNull

\* C6: a reply that is not an object after cleaning (text that does not
\* parse, or an array, a string, a number, null) makes extract_invoice_json
\* raise the ValueError of a malformed reply; nothing is returned.
C6_MalformedRaisesValueError ==
    (x_pc = "done" /\ x_out.status # "LLM Error" /\ ~(Parsed.ok /\ Parsed.val.k = "obj"))
        => x_out.status = "ValueError"

(***************************************************************************)
(* Properties of extract_text_from_pdf (SpecText).                         *)
(***************************************************************************)
StrippedLen(native_text) == Len(StripText(native_text))

\* C4 as stated: when every page has a native text of 50 characters or more
\* (stripped), the recognition engine is never called.
C4_AtLeastThreshold ==
    (\A p \in 1..Len(pdf_document) : StrippedLen(pdf_document[p]) >= NativeThreshold)
        => ocr_calls = 0

\* C4 amended: when every page has a native text of more than 50 characters
\* (stripped length 51 or more), the recognition engine is never called.
C4_AboveThreshold ==
    (\A p \in 1..Len(pdf_document) : StrippedLen(pdf_document[p]) > NativeThreshold)
        => ocr_calls = 0 /\ t_pc # "ocr"

\* a document of several pages, all above the threshold, has been read through
C4_Witness ==
    /\ t_pc = "done"
    /\ Len(pdf_document) >= 2
    /\ \A p \in 1..Len(pdf_document) : StrippedLen(pdf_document[p]) > NativeThreshold
    /\ \E p \in 1..Len(pdf_document) : StrippedLen(pdf_document[p]) < Len(pdf_document[p])
    /\ ocr_calls = 0
    /\ final_text # <<>>

IsContent(c) == c.frag >= 0

\* pages never go back along s; s holds page contents only
PagesAscend(s) == \A i \in 1..(Len(s) - 1) : s[i].page <= s[i + 1].page
FragmentsAscend(s) ==
    \A i \in 1..(Len(s) - 1) : s[i].page = s[i + 1].page => s[i].frag <= s[i + 1].frag

InOrder(s) == PagesAscend(s) /\ FragmentsAscend(SelectSeq(s, IsContent))

\* C5: in the text built so far and in the text returned, whatever page i
\* contributed comes before whatever page j > i contributed, and the fragments
\* of a recognized page come in the order the engine emitted them.
C5_OrderPreserved == InOrder(extracted_text) /\ InOrder(final_text)

Has(s, page, frag) == \E i \in 1..Len(s) : s[i].page = page /\ s[i].frag = frag

\* a three-page document, native / recognized with two fragments / native
C5_Witness ==
    /\ t_pc = "done"
    /\ Len(pdf_document) = 3
    /\ Has(final_text, 1, 0)
    /\ Has(final_text, 2, 1)
    /\ Has(final_text, 2, 2)
    /\ Has(final_text, 3, 0)

\* C9: in the text returned, wherever the contribution of one page ends and
\* that of the next begins, the boundary is marked by the newline the loop
\* adds, whether the pages were native or recognized.
C9_NewlineAtEveryBoundary ==
    t_pc = "done" =>
        \A i \in 1..(Len(final_text) - 1) :
            final_text[i].page # final_text[i + 1].page
                => final_text[i] = Ch("nl", final_text[i].page, -1)

(***************************************************************************)
(* Properties of the /upload handler (Spec).                               *)
(***************************************************************************)
\* request r has ended, and not before extract_text_from_pdf returned
TextExtracted(r) ==
    /\ req[r].pc = "done"
    /\ req[r].response.code # 400
    /\ req[r].response.error \notin {"save failed", "OCR Error"}

\* C3: a request whose extracted text is shorter than 10 characters fails
\* with the insufficient-text error without any call to the model; the model
\* is called only once the text has passed the check.
C3_NoModelCallOnShortText ==
    \A r \in Requests :
        /\ req[r].llm_calls > 0 => Len(req[r].text) >= MinYield /\ req[r].pc \in {"llm", "done"}
        /\ req[r].pc = "llm" => req[r].llm_calls = 1
        /\ req[r].response.error = InsufficientMsg =>
              req[r].llm_calls = 0 /\ Len(req[r].text) < MinYield
        /\ (TextExtracted(r) /\ Len(req[r].text) < MinYield)
              => req[r].response = Failed(InsufficientMsg) /\ req[r].llm_calls = 0

\* a scanned page gave 9 characters and the request failed before the model
C3_Witness ==
    \E r \in Requests :
        /\ req[r].pc = "done"
        /\ req[r].ocr_calls = 1
        /\ Len(req[r].text) = MinYield - 1
        /\ req[r].response = Failed(InsufficientMsg)
        /\ req[r].llm_calls = 0

\* C7: a failure in any stage ends the request with a 500 that has success
\* false, an error and no data; no stage runs after it or runs twice; a
\* response with data is a 200 given after every stage succeeded, and its data
\* is the complete record.
C7_FailureShortCircuits ==
    \A r \in Requests :
        /\ req[r].response.code = 500 =>
              /\ req[r].response.success = "false"
              /\ req[r].response.error # ""
              /\ ~req[r].response.has_data
        /\ req[r].response.error \in {"save failed", "OCR Error", InsufficientMsg}
              => req[r].llm_calls = 0
        /\ req[r].llm_calls <= 1
        /\ \E doc \in UploadDocs : req[r].ocr_calls <= Len(doc)
        /\ req[r].response.has_data =>
              /\ req[r].response.code = 200
              /\ req[r].response.success = "true"
              /\ req[r].llm_calls = 1
              /\ req[r].response.data.k = "obj"
              /\ SchemaKeys \subseteq DOMAIN req[r].response.data.m

\* C8: at most one request is inside ocr.ocr at any time.
C8_EngineSerialized == Cardinality({ r \in Requests : req[r].pc = "ocr" }) <= 1

\* C10: the document a request reads and extracts from is the document that
\* request uploaded.
C10_OwnDocument ==
    \A r \in Requests :
        req[r].pc \in {"loop", "ocr", "llm"} => req[r].pdf_document = req[r].file

====
